---- MODULE Spec2Model ----
(***************************************************************************)
(* Training / evaluation orchestration of tsoj/Chess-diagram-to-FEN.       *)
(*                                                                         *)
(* src/src/board_orientation/train.py and src/src/fen_recognition/train.py *)
(* hold the same control flow: train() drives optimizer steps over passes  *)
(* of a training loader, reports the running loss, evaluates on a test     *)
(* loader with get_accuracy_and_loss(), keeps the best state dict and      *)
(* saves it with the curves.  The model follows that control flow line by  *)
(* line; line numbers in comments are those of board_orientation/train.py  *)
(* (fen_recognition/train.py holds the same statements 1 to 12 lines       *)
(* further down; it counts correct examples one by one, lines 33-38, and   *)
(* may load a checkpoint into the model before training, lines 87-89).     *)
(*                                                                         *)
(* Numbers: an accuracy or a mean loss is a quotient of two integers and   *)
(* is kept as the pair <<numerator, denominator>>, denominator > 0.        *)
(***************************************************************************)
EXTENDS Integers, Sequences, FiniteSets, TLC

(***************************************************************************)
(* Bounds of the model.                                                    *)
(***************************************************************************)
\* total_steps is drawn from 0..MaxTotalSteps
MaxTotalSteps == 5
\* len(train_loader), the full batches of one training pass, from 0..MaxTrainBatches
MaxTrainBatches == 3
\* len(test_loader) from 0..MaxTestBatches
MaxTestBatches == 2
\* the values batch_size is drawn from
BatchSizes == {1, 2}
\* the values a per-batch loss, criterion(...).item(), is drawn from
Losses == {0, 1}
\* Reporting cadence.  The sources set 100 (orientation) and 200 (fen); the
\* model runs the same arithmetic on a cadence small enough to occur.
LOSS_REPORT_FREQ == 2
\* Evaluation cadence.  The sources set 2000 (orientation) and 4000 (fen).
TEST_ACC_FREQ == 2

VARIABLES
    \* ---- run configuration (arguments of train(), never written) ----
    total_steps,    \* train(total_steps=...)
    batch_size,     \* train(batch_size=...)
    train_loader,   \* number of batches one pass of train_loader yields
    test_loader,    \* sequence of the sizes of the batches test_loader yields
    \* ---- control ----
    pc,             \* position in train() / get_accuracy_and_loss()
    exc,            \* the exception that ended the run, "none" while running
    \* ---- locals of train() ----
    num_steps,
    running_loss,
    i,              \* enumerate index of the current training batch
    train_iter,     \* batches the current pass has drawn from train_loader
    test_loss_list,
    test_acc_list,
    best_acc,
    best_model,     \* "None", or a reference to the storage a state dict holds
    test_acc,
    test_loss,
    \* ---- objects train() owns ----
    params,         \* the live model's parameter storage: the number of the
                    \* update that produced its present contents
    training,       \* model.training, the trainable-mode flag
    opt_steps,      \* optimizer.step() calls made
    sched_steps,    \* scheduler.step() calls made
    \* ---- locals of get_accuracy_and_loss() ----
    num_correct,
    num_samples,
    loss,
    test_iter,      \* batches the evaluator has drawn from its loader
    \* ---- outputs ----
    out,            \* the lines printed, in order
    file,           \* the checkpoint torch.save writes
    plot,           \* the figure plt.savefig writes
    \* ---- history (not program state; read by the properties only) ----
    captured,       \* params at the moment best_model was last assigned,
                    \* -1 before
    captured_at,    \* index in test_acc_list of the evaluation that assigned it
    mode_before,    \* model.training when get_accuracy_and_loss was last entered
    eval_returns,   \* calls of get_accuracy_and_loss that have returned
    recent,         \* loss.item() of the latest training batches, at most
                    \* LOSS_REPORT_FREQ of them, oldest first
    batch_losses    \* criterion(...).item() of each batch of the evaluation
                    \* under way or last made, in loader order

vars == << total_steps, batch_size, train_loader, test_loader, pc, exc,
           num_steps, running_loss, i, train_iter, test_loss_list,
           test_acc_list, best_acc, best_model, test_acc, test_loss, params,
           training, opt_steps, sched_steps, num_correct, num_samples, loss,
           test_iter, out, file, plot, captured, captured_at, mode_before,
           eval_returns, recent, batch_losses >>

config   == << total_steps, batch_size, train_loader, test_loader >>
evalvars == << num_correct, num_samples, loss, test_iter >>
outputs  == << out, file, plot >>
history  == << captured, captured_at, mode_before, eval_returns, recent,
               batch_losses >>
curves   == << test_loss_list, test_acc_list >>
best     == << best_acc, best_model, captured, captured_at >>
objects  == << params, opt_steps, sched_steps >>

(***************************************************************************)
(* Arithmetic on quotients <<n, d>> with d > 0.                            *)
(***************************************************************************)
\* Python's a > b on two quotients
Greater(a, b) == a[1] * b[2] > b[1] * a[2]
\* Python's a == b on two quotients
Same(a, b) == a[1] * b[2] = b[1] * a[2]

\* "%.3f" % q: the quotient in thousandths, rounded to nearest
Format3(q) ==
    IF q[1] >= 0 THEN (2000 * q[1] + q[2]) \div (2 * q[2])
    ELSE -((2000 * (-q[1]) + q[2]) \div (2 * q[2]))

(***************************************************************************)
(* Conditions of train(), one operator per test in the source.             *)
(***************************************************************************)
\* the loop test off by one: the loop is left one step short of the budget
LoopCondShort(n, t) == n + 1 < t

\* line 93: while num_steps < total_steps
LoopCond(n, t) == n < t

\* line 113: if (i + 1) % LOSS_REPORT_FREQ == 0
ReportDue(idx) == (idx + 1) % LOSS_REPORT_FREQ = 0

\* the evaluation test without its second operand: periodic evaluations only
EvalDuePeriodicOnly(idx, n, t) == (idx + 1) % TEST_ACC_FREQ = 0

\* the evaluation test without its first operand: the final evaluation only
EvalDueFinalOnly(idx, n, t) == n >= t

\* the evaluation test keyed to the global step counter
EvalDueByStep(idx, n, t) == n % TEST_ACC_FREQ = 0 \/ n >= t

\* line 126: if (i + 1) % TEST_ACC_FREQ == 0 or num_steps >= total_steps
EvalDue(idx, n, t) == (idx + 1) % TEST_ACC_FREQ = 0 \/ n >= t

\* the replacement test with >= for >: a tie replaces the held snapshot
ImprovesOrTies(acc, held) == ~Greater(held, acc)

\* line 137: if test_acc > best_acc
Improves(acc, held) == Greater(acc, held)

\* the break test with > for >=: the pass goes on when the budget is met
BreakCondLate(n, t) == n > t

\* line 142: if num_steps >= total_steps: break
BreakCond(n, t) == n >= t

\* line 139: model.state_dict() returns tensors that share the parameters'
\* storage: the value held is a reference to that storage, not a copy
StateDict == "model_storage"

\* what a held state dict contains when it is read (torch.save, line 151);
\* -1 stands for the contents of None
Deref(ref) == IF ref = "None" THEN -1 ELSE params

\* a scheduler that takes any step budget
SchedulerAcceptsAny(t) == TRUE

\* lines 83-85: OneCycleLR(optimizer, max_lr, total_steps) accepts a positive
\* total_steps only and raises ValueError otherwise
SchedulerAccepts(t) == t > 0

\* the scheduler left out of the step
SchedulerStepSkipped(s) == s

\* line 107: scheduler.step(), once in each optimization step
SchedulerStep(s) == s + 1

\* the sentinel 0.0 for -1.0: an accuracy of 0 no longer beats it
InitialBestAccZero == << 0, 1 >>

\* line 89: best_acc = -1.0
InitialBestAcc == << -1, 1 >>

\* the accumulator carried over from the pass before
RunningLossCarried == running_loss

\* line 94: running_loss = 0.0 at the start of every pass
RunningLossAtPassStart == 0

\* the new entry replaces the list
ReplaceCurve(list, x) == << x >>

\* lines 130-131: test_loss_list.append(...), test_acc_list.append(...)
AppendCurve(list, x) == Append(list, x)

\* a forward pass that updates the model (statistics kept in training mode)
EvalForwardUpdates(p) == p + 1

\* lines 19-24: model(input) after model.eval() and under torch.no_grad()
\* leaves the parameter storage as it is
EvalForward(p) == p

\* a count over every pair of an output and a target of the batch
CorrectCountsPairs(n) == 0..(n * n)

\* The values compared per example.  fen_recognition compares one decoded
\* board per example (lines 33-38).  board_orientation compares output and
\* target element by element (line 31); the model and the dataset, which fix
\* their shapes, are not among the sources: one score per example, as the
\* specification's orientation rule has it.
ElementsPerExample == 1

\* line 31 (fen_recognition/train.py lines 33-38): the comparisons of a
\* batch of n examples counted as correct
CorrectCounts(n) == 0..(n * ElementsPerExample)

\* the batch loss added as it is
UnweightedLoss(l, n) == l

\* line 26: criterion(output, target).item() * target.size(0)
WeightedLoss(l, n) == l * n

\* the latest LOSS_REPORT_FREQ entries of a sequence
Latest(s) ==
    IF Len(s) <= LOSS_REPORT_FREQ THEN s
    ELSE SubSeq(s, Len(s) - LOSS_REPORT_FREQ + 1, Len(s))

(***************************************************************************)
(* Initial state: train() has been called with some configuration.         *)
(* Both loaders are built with drop_last=True (lines 71-76), so every      *)
(* batch holds exactly batch_size examples and a dataset shorter than      *)
(* batch_size yields no batch at all.                                      *)
(***************************************************************************)
Init ==
    /\ total_steps \in 0..MaxTotalSteps
    /\ batch_size \in BatchSizes
    /\ train_loader \in 0..MaxTrainBatches
    /\ \E m \in 0..MaxTestBatches : test_loader = [k \in 1..m |-> batch_size]
    /\ pc = "warming"
    /\ exc = "none"
    /\ num_steps = 0
    /\ running_loss = 0
    /\ i = -1
    /\ train_iter = 0
    /\ test_loss_list = << >>
    /\ test_acc_list = << >>
    /\ best_acc = InitialBestAcc
    /\ best_model = "None"
    /\ test_acc = << 0, 1 >>
    /\ test_loss = << 0, 1 >>
    /\ params = 0
    /\ training = TRUE
    /\ opt_steps = 0
    /\ sched_steps = 0
    /\ num_correct = 0
    /\ num_samples = 0
    /\ loss = 0
    /\ test_iter = 0
    /\ out = << >>
    /\ file = [written |-> FALSE, name |-> 0, content |-> -1]
    /\ plot = [written |-> FALSE, loss |-> << >>, acc |-> << >>]
    /\ captured = -1
    /\ captured_at = 0
    /\ mode_before = TRUE
    /\ eval_returns = 0
    /\ recent = << >>
    /\ batch_losses = << >>

(***************************************************************************)
(* train(), lines 52-91: datasets, loaders, model, criterion, optimizer,   *)
(* scheduler, then the locals of the loop.                                 *)
(***************************************************************************)
Setup ==
    /\ pc = "warming"
    /\ IF SchedulerAccepts(total_steps)
         THEN /\ pc' = "while"
              /\ exc' = exc
         ELSE /\ pc' = "raised"
              /\ exc' = "ValueError"
    /\ test_loss_list' = << >>
    /\ test_acc_list' = << >>
    /\ best_acc' = InitialBestAcc
    /\ best_model' = "None"
    /\ num_steps' = 0
    /\ UNCHANGED << config, running_loss, i, train_iter, test_acc, test_loss,
                    params, training, opt_steps, sched_steps, evalvars,
                    outputs, history >>

\* line 93, and lines 94 and 96 when the loop goes on: a new pass starts with
\* running_loss = 0.0 and a fresh iterator over train_loader
WhileCheck ==
    /\ pc = "while"
    /\ IF LoopCond(num_steps, total_steps)
         THEN /\ running_loss' = RunningLossAtPassStart
              /\ train_iter' = 0
              /\ pc' = "for"
         ELSE /\ pc' = "persist"
              /\ UNCHANGED << running_loss, train_iter >>
    /\ UNCHANGED << config, exc, num_steps, i, curves, best_acc, best_model,
                    test_acc, test_loss, params, training, opt_steps,
                    sched_steps, evalvars, outputs, history >>

\* line 96: the for statement draws the next batch, or ends the pass
ForNext ==
    /\ pc = "for"
    /\ IF train_iter < train_loader
         THEN /\ i' = train_iter
              /\ train_iter' = train_iter + 1
              /\ pc' = "step"
         ELSE /\ pc' = "while"
              /\ UNCHANGED << i, train_iter >>
    /\ UNCHANGED << config, exc, num_steps, running_loss, curves, best_acc,
                    best_model, test_acc, test_loss, params, training,
                    opt_steps, sched_steps, evalvars, outputs, history >>

\* lines 97-111 when nothing raises: zero_grad, forward, criterion, backward,
\* optimizer.step() (updates the parameters in place), scheduler.step(),
\* num_steps += 1, running_loss += loss.item()
StepOk ==
    /\ pc = "step"
    /\ \E l \in Losses :
         /\ running_loss' = running_loss + l
         /\ recent' = Latest(Append(recent, l))
    /\ params' = params + 1
    /\ opt_steps' = opt_steps + 1
    /\ sched_steps' = SchedulerStep(sched_steps)
    /\ num_steps' = num_steps + 1
    /\ pc' = "report"
    /\ UNCHANGED << config, exc, i, train_iter, curves, best_acc, best_model,
                    test_acc, test_loss, training, evalvars, outputs, captured,
                    captured_at, mode_before, eval_returns, batch_losses >>

\* lines 97-105 when the transfer, the forward pass, the criterion or
\* backward() raises: nothing in train() catches it
StepRaises ==
    /\ pc = "step"
    /\ pc' = "raised"
    /\ exc' = "StepError"
    /\ UNCHANGED << config, num_steps, running_loss, i, train_iter, curves,
                    best_acc, best_model, test_acc, test_loss, params,
                    training, opt_steps, sched_steps, evalvars, outputs,
                    history >>

\* lines 113-124
LossReport ==
    /\ pc = "report"
    /\ IF ReportDue(i)
         THEN /\ out' = Append(out, [kind |-> "loss", num_steps |-> num_steps,
                                     batch |-> i + 1,
                                     value |-> << running_loss, LOSS_REPORT_FREQ >>,
                                     lr_step |-> sched_steps])
              /\ running_loss' = 0
         ELSE UNCHANGED << out, running_loss >>
    /\ pc' = "test"
    /\ UNCHANGED << config, exc, num_steps, i, train_iter, curves, best_acc,
                    best_model, test_acc, test_loss, params, training,
                    opt_steps, sched_steps, evalvars, file, plot, history >>

\* line 126: the test; when it holds, line 127 calls get_accuracy_and_loss
EvalCheck ==
    /\ pc = "test"
    /\ pc' = IF EvalDue(i, num_steps, total_steps) THEN "eval_enter" ELSE "break"
    /\ UNCHANGED << config, exc, num_steps, running_loss, i, train_iter,
                    curves, best_acc, best_model, test_acc, test_loss, params,
                    training, opt_steps, sched_steps, evalvars, outputs,
                    history >>

(***************************************************************************)
(* get_accuracy_and_loss(loader, model, criterion), lines 15-34.           *)
(***************************************************************************)
\* lines 16-20: the accumulators, model.eval(), the iterator over the loader
EvalEnter ==
    /\ pc = "eval_enter"
    /\ mode_before' = training
    /\ num_correct' = 0
    /\ num_samples' = 0
    /\ loss' = 0
    /\ training' = FALSE
    /\ test_iter' = 0
    /\ batch_losses' = << >>
    /\ pc' = "eval_loop"
    /\ UNCHANGED << config, exc, num_steps, running_loss, i, train_iter,
                    curves, best_acc, best_model, test_acc, test_loss, objects,
                    outputs, captured, captured_at, eval_returns, recent >>

\* lines 21-32, one batch, nothing raises: the loss is weighted by the batch's
\* size, c of its target.size(0) examples count as correct
EvalBatchOk ==
    /\ pc = "eval_loop"
    /\ test_iter < Len(test_loader)
    /\ LET n == test_loader[test_iter + 1] IN
         /\ \E l \in Losses :
              /\ loss' = loss + WeightedLoss(l, n)
              /\ batch_losses' = Append(batch_losses, l)
         /\ \E c \in CorrectCounts(n) : num_correct' = num_correct + c
         /\ num_samples' = num_samples + n
    /\ params' = EvalForward(params)
    /\ test_iter' = test_iter + 1
    /\ UNCHANGED << config, pc, exc, num_steps, running_loss, i, train_iter,
                    curves, best_acc, best_model, test_acc, test_loss,
                    opt_steps, sched_steps, training, outputs, captured,
                    captured_at, mode_before, eval_returns, recent >>

\* lines 21-32, one batch, the forward pass, the criterion or the decoder
\* raises: the exception leaves the function at once (line 33 is not run)
EvalBatchRaises ==
    /\ pc = "eval_loop"
    /\ test_iter < Len(test_loader)
    /\ pc' = "raised"
    /\ exc' = "EvalError"
    /\ UNCHANGED << config, num_steps, running_loss, i, train_iter, curves,
                    best_acc, best_model, test_acc, test_loss, objects,
                    training, evalvars, outputs, history >>

\* lines 33-34, the loader is exhausted: model.train(), then the two
\* divisions, which raise ZeroDivisionError when no batch was seen
EvalReturn ==
    /\ pc = "eval_loop"
    /\ test_iter = Len(test_loader)
    /\ training' = TRUE
    /\ IF num_samples = 0
         THEN /\ pc' = "raised"
              /\ exc' = "ZeroDivisionError"
              /\ UNCHANGED << test_acc, test_loss, eval_returns >>
         ELSE /\ test_acc' = << num_correct, num_samples >>
              /\ test_loss' = << loss, num_samples >>
              /\ eval_returns' = eval_returns + 1
              /\ pc' = "record"
              /\ exc' = exc
    /\ UNCHANGED << config, num_steps, running_loss, i, train_iter, curves,
                    best_acc, best_model, objects, evalvars, outputs, captured,
                    captured_at, mode_before, recent, batch_losses >>

(***************************************************************************)
(* train(), continued.                                                     *)
(***************************************************************************)
\* lines 130-140: the curves, the report, the best model
Record ==
    /\ pc = "record"
    /\ test_loss_list' = AppendCurve(test_loss_list, test_loss)
    /\ test_acc_list' = AppendCurve(test_acc_list, test_acc)
    /\ LET line == [kind |-> "eval", num_steps |-> num_steps,
                    loss |-> test_loss, acc |-> test_acc] IN
         IF Improves(test_acc, best_acc)
         THEN /\ best_acc' = test_acc
              /\ best_model' = StateDict
              /\ captured' = params
              /\ captured_at' = Len(test_acc_list) + 1
              /\ out' = out \o << line, [kind |-> "best", acc |-> test_acc] >>
         ELSE /\ out' = Append(out, line)
              /\ UNCHANGED best
    /\ pc' = "break"
    /\ UNCHANGED << config, exc, num_steps, running_loss, i, train_iter,
                    test_acc, test_loss, objects, training, evalvars, file,
                    plot, mode_before, eval_returns, recent, batch_losses >>

\* lines 142-143: break leaves the for loop; control is back at line 93
BreakCheck ==
    /\ pc = "break"
    /\ pc' = IF BreakCond(num_steps, total_steps) THEN "while" ELSE "for"
    /\ UNCHANGED << config, exc, num_steps, running_loss, i, train_iter,
                    curves, best_acc, best_model, test_acc, test_loss, objects,
                    training, evalvars, outputs, history >>

\* lines 145-151: the file name embeds "%.3f" % best_acc; torch.save writes
\* whatever best_model refers to at this moment
Persist ==
    /\ pc = "persist"
    /\ out' = Append(out, [kind |-> "saving", name |-> Format3(best_acc)])
    /\ file' = [written |-> TRUE, name |-> Format3(best_acc),
                content |-> Deref(best_model)]
    /\ pc' = "plot"
    /\ UNCHANGED << config, exc, num_steps, running_loss, i, train_iter,
                    curves, best_acc, best_model, test_acc, test_loss, objects,
                    training, evalvars, plot, history >>

\* lines 153-163: the two curves, saved next to the checkpoint
Plot ==
    /\ pc = "plot"
    /\ plot' = [written |-> TRUE, loss |-> test_loss_list, acc |-> test_acc_list]
    /\ pc' = "returned"
    /\ UNCHANGED << config, exc, num_steps, running_loss, i, train_iter,
                    curves, best_acc, best_model, test_acc, test_loss, objects,
                    training, evalvars, out, file, history >>

Next ==
    \/ Setup
    \/ WhileCheck
    \/ ForNext
    \/ StepOk
    \/ StepRaises
    \/ LossReport
    \/ EvalCheck
    \/ EvalEnter
    \/ EvalBatchOk
    \/ EvalBatchRaises
    \/ EvalReturn
    \/ Record
    \/ BreakCheck
    \/ Persist
    \/ Plot

Spec == Init /\ [][Next]_vars

(***************************************************************************)
(* get_accuracy_and_loss called on its own: any loader (batches of any of  *)
(* the sizes, not necessarily equal) and a model in either mode.  The      *)
(* state "record" is the caller holding the returned pair.                 *)
(***************************************************************************)
InitEval ==
    /\ total_steps = 0
    /\ batch_size = 1
    /\ train_loader = 0
    /\ test_loader \in UNION { [1..m -> BatchSizes] : m \in 0..MaxTestBatches }
    /\ pc = "eval_enter"
    /\ exc = "none"
    /\ num_steps = 0
    /\ running_loss = 0
    /\ i = -1
    /\ train_iter = 0
    /\ test_loss_list = << >>
    /\ test_acc_list = << >>
    /\ best_acc = InitialBestAcc
    /\ best_model = "None"
    /\ test_acc = << 0, 1 >>
    /\ test_loss = << 0, 1 >>
    /\ params = 0
    /\ training \in BOOLEAN
    /\ opt_steps = 0
    /\ sched_steps = 0
    /\ num_correct = 0
    /\ num_samples = 0
    /\ loss = 0
    /\ test_iter = 0
    /\ out = << >>
    /\ file = [written |-> FALSE, name |-> 0, content |-> -1]
    /\ plot = [written |-> FALSE, loss |-> << >>, acc |-> << >>]
    /\ captured = -1
    /\ captured_at = 0
    /\ mode_before = training
    /\ eval_returns = 0
    /\ recent = << >>
    /\ batch_losses = << >>

NextEval ==
    \/ EvalEnter
    \/ EvalBatchOk
    \/ EvalBatchRaises
    \/ EvalReturn

SpecEval == InitEval /\ [][NextEval]_vars

\* train() is one sequential thread of control: while a statement remains to
\* run, one is run
LiveSpec == Spec /\ WF_vars(Next)

\* the run has left the loop (the spec's DONE)
Done == pc \in {"persist", "plot", "returned"}

(***************************************************************************)
(* Helpers of the properties.                                              *)
(***************************************************************************)
Min(a, b) == IF a <= b THEN a ELSE b

Last(s) == s[Len(s)]

IsEvalLine(r) == r.kind = "eval"

\* the evaluation reports printed so far (line 132), in order
EvalLines == SelectSeq(out, IsEvalLine)

\* the evaluation reports printed at step count n
EvalLinesAt(n) == { k \in 1..Len(EvalLines) : EvalLines[k].num_steps = n }

\* A pass yields train_loader steps and the loop starts a new pass as long
\* as the budget is not met, so total_steps passes always suffice: the steps
\* the batching can supply to a run
StepsAvailable == train_loader * total_steps

(***************************************************************************)
(* C1.  In every reachable state 0 <= num_steps <= total_steps, and once   *)
(* num_steps equals total_steps no optimizer step is executed any more:    *)
(* no batch is drawn from the current pass and no new pass is started.     *)
(***************************************************************************)
C1_StepsWithinBudget ==
    /\ [](0 <= num_steps /\ num_steps <= total_steps /\ opt_steps = num_steps)
    /\ [][num_steps = total_steps =>
            /\ opt_steps' = opt_steps
            /\ num_steps' = num_steps
            /\ train_iter' = train_iter
            /\ pc' \notin {"for", "step"}]_vars

\* the budget was met in the middle of a pass and the run went on to its end
C1_Witness ==
    /\ pc = "returned"
    /\ total_steps >= 1
    /\ num_steps = total_steps
    /\ opt_steps = total_steps
    /\ train_iter < train_loader

(***************************************************************************)
(* C2.  The best snapshot has value semantics: the state persisted at run  *)
(* end equals the model's parameters at the moment of the evaluation that  *)
(* produced best_acc, whatever optimizer steps followed that evaluation.   *)
(***************************************************************************)
C2_SnapshotHasValueSemantics ==
    file.written => file.content = captured

(***************************************************************************)
(* C3.  After each evaluation best_acc is the maximum accuracy observed so *)
(* far and the held snapshot was taken at the earliest evaluation that     *)
(* reached that maximum (a tie or a lower value replaces nothing); before  *)
(* the first evaluation the pair is (-1.0, None).                          *)
(***************************************************************************)
C3_BestIsEarliestMaximum ==
    IF test_acc_list = << >>
    THEN best_acc = << -1, 1 >> /\ best_model = "None"
    ELSE /\ best_model # "None"
         /\ captured_at \in 1..Len(test_acc_list)
         /\ Same(best_acc, test_acc_list[captured_at])
         /\ \A k \in 1..Len(test_acc_list) :
               ~Greater(test_acc_list[k], best_acc)
         /\ \A k \in 1..(captured_at - 1) :
               Greater(best_acc, test_acc_list[k])

\* three evaluations: the first sets the maximum, the second is lower, the
\* third ties with the first, and the first is still the one held
C3_Witness ==
    /\ Len(test_acc_list) = 3
    /\ pc = "break"
    /\ Greater(test_acc_list[1], test_acc_list[2])
    /\ Same(test_acc_list[3], test_acc_list[1])
    /\ captured_at = 1
    /\ Same(best_acc, test_acc_list[1])

(***************************************************************************)
(* C4.  After any call of get_accuracy_and_loss, whether it returned or    *)
(* raised, the model's trainable-mode flag equals its value immediately    *)
(* before the call.                                                        *)
(***************************************************************************)
C4_ModeRestored ==
    (pc = "record" \/ (pc = "raised" /\ exc \in {"EvalError", "ZeroDivisionError"}))
        => training = mode_before

(***************************************************************************)
(* C5.  In every run that reaches DONE with total_steps >= 1 the last      *)
(* evaluation was made at step count total_steps, no optimizer step was    *)
(* made after it, its result is the last entry of both curves and the      *)
(* best accuracy held is not below it.                                     *)
(***************************************************************************)
C5_ForcedFinalEvaluation ==
    (Done /\ total_steps >= 1) =>
        /\ EvalLines # << >>
        /\ Last(EvalLines).num_steps = total_steps
        /\ opt_steps = total_steps
        /\ test_acc_list # << >> /\ Last(test_acc_list) = Last(EvalLines).acc
        /\ test_loss_list # << >> /\ Last(test_loss_list) = Last(EvalLines).loss
        /\ best_model # "None"
        /\ ~Greater(Last(EvalLines).acc, best_acc)

\* the run ended on an evaluation that only the budget forced: the step that
\* met the budget was in the middle of a pass and off the periodic cadence
C5_Witness ==
    /\ pc = "returned"
    /\ total_steps >= 1
    /\ (i + 1) % TEST_ACC_FREQ # 0
    /\ train_iter < train_loader
    /\ Last(EvalLines).num_steps = total_steps

(***************************************************************************)
(* C6.  After a completed optimization step an evaluation is performed if  *)
(* and only if the number of batches processed in the pass, i + 1, is a    *)
(* multiple of TEST_ACC_FREQ or num_steps has reached total_steps, and     *)
(* then exactly one; every evaluation has one entry in each curve, equal   *)
(* to its result, and the best accuracy held is not below any of them.     *)
(***************************************************************************)
C6_EvaluationCadence ==
    /\ Len(test_acc_list) = Len(EvalLines)
    /\ Len(test_loss_list) = Len(EvalLines)
    /\ \A k \in 1..Len(EvalLines) :
          /\ test_acc_list[k] = EvalLines[k].acc
          /\ test_loss_list[k] = EvalLines[k].loss
          /\ ~Greater(EvalLines[k].acc, best_acc)
    /\ \A n \in 0..num_steps : Cardinality(EvalLinesAt(n)) <= 1
    /\ pc = "break" =>
          (EvalLinesAt(num_steps) # {}
             <=> ((i + 1) % TEST_ACC_FREQ = 0 \/ num_steps >= total_steps))

\* a step on which both conditions hold, followed by a single evaluation
C6_Witness ==
    /\ pc = "break"
    /\ (i + 1) % TEST_ACC_FREQ = 0
    /\ num_steps = total_steps
    /\ Cardinality(EvalLinesAt(num_steps)) = 1
    /\ Len(test_acc_list) >= 2

(***************************************************************************)
(* C7.  The "none" snapshot is never persisted: whenever the persistence   *)
(* stage is reached a snapshot is held, and a run with total_steps = 0,    *)
(* in which no evaluation is ever made, ends in an error raised before the *)
(* loop, with no checkpoint file written.                                  *)
(***************************************************************************)
C7_NoneNeverPersisted ==
    /\ Done => best_model # "None"
    /\ file.written => file.content # -1
    /\ (total_steps = 0 /\ pc # "warming") =>
          /\ pc = "raised"
          /\ exc = "ValueError"
          /\ ~file.written
          /\ test_acc_list = << >>

\* the run with total_steps = 0 has ended in the error, nothing was written
C7_Witness ==
    /\ total_steps = 0
    /\ pc = "raised"
    /\ exc = "ValueError"
    /\ best_model = "None"
    /\ ~file.written

(***************************************************************************)
(* C8.  A configuration error (a step budget the scheduler rejects, a test *)
(* loader that yields no batch) is raised before any optimizer step:       *)
(* num_steps = 0 at the error.                                             *)
(***************************************************************************)
C8_ConfigErrorsFailFast ==
    (pc = "raised" /\ exc \in {"ValueError", "ZeroDivisionError"})
        => (num_steps = 0 /\ opt_steps = 0)

(***************************************************************************)
(* C9.  When a failure in a training step or in an evaluation ends the     *)
(* run while a best snapshot is held, the curve history collected so far   *)
(* has been reported.                                                      *)
(***************************************************************************)
C9_FailureStillReportsCurves ==
    (pc = "raised" /\ best_model # "None")
        => (plot.written /\ plot.acc = test_acc_list /\ plot.loss = test_loss_list)

(***************************************************************************)
(* C10.  When the loop has reached DONE the number of optimizer steps      *)
(* executed equals min(total_steps, steps available given the batching):   *)
(* the budget exactly, never one step more or less.                        *)
(***************************************************************************)
C10_StepsExecutedAtDone ==
    Done => /\ opt_steps = Min(total_steps, StepsAvailable)
            /\ num_steps = opt_steps
            /\ sched_steps = opt_steps

\* a run that needed more than one pass to meet its budget
C10_Witness ==
    /\ pc = "returned"
    /\ train_loader >= 1
    /\ total_steps > train_loader
    /\ opt_steps = total_steps

(***************************************************************************)
(* More helpers of the properties.                                         *)
(***************************************************************************)
RECURSIVE Sum(_)
Sum(s) == IF s = << >> THEN 0 ELSE s[1] + Sum(Tail(s))

IsLossLine(r) == r.kind = "loss"

\* the loss reports printed so far (line 114), in order
LossLines == SelectSeq(out, IsLossLine)

\* s is t, or t with entries added at its end
Extends(s, t) == Len(s) >= Len(t) /\ SubSeq(s, 1, Len(t)) = t

\* an optimizer step and a scheduler step only ever happen together, once each
SteppedTogether ==
    /\ opt_steps' # opt_steps =>
          (opt_steps' = opt_steps + 1 /\ sched_steps' = sched_steps + 1)
    /\ sched_steps' # sched_steps => opt_steps' = opt_steps + 1


(***************************************************************************)
(* C11.  At every step boundary the scheduler has been stepped as often    *)
(* as the optimizer, which is num_steps times and never more than          *)
(* total_steps times; every optimizer step comes with exactly one          *)
(* scheduler step and the scheduler is stepped at no other moment.         *)
(***************************************************************************)
C11_ScheduleSynchronised ==
    /\ [](sched_steps = opt_steps /\ opt_steps = num_steps
            /\ sched_steps <= total_steps)
    /\ [][SteppedTogether]_vars

\* a run that used its whole budget over more than one pass
C11_Witness ==
    /\ pc = "returned"
    /\ total_steps >= 2
    /\ total_steps > train_loader
    /\ sched_steps = total_steps
    /\ opt_steps = total_steps

(***************************************************************************)
(* C12.  A loss report is printed exactly when the in-pass batch count     *)
(* i + 1 is a multiple of LOSS_REPORT_FREQ; the value printed is the sum   *)
(* of the losses of the latest LOSS_REPORT_FREQ batches, all of the        *)
(* current pass, divided by LOSS_REPORT_FREQ; the accumulator is zero      *)
(* right after the report; two reports are at least LOSS_REPORT_FREQ       *)
(* steps apart, so no batch counts in two reports.                         *)
(***************************************************************************)
C12_LossReportWindow ==
    /\ \A k \in 1..Len(LossLines) :
          /\ LossLines[k].batch % LOSS_REPORT_FREQ = 0
          /\ LossLines[k].value[2] = LOSS_REPORT_FREQ
          /\ k > 1 => LossLines[k].num_steps - LossLines[k - 1].num_steps
                         >= LOSS_REPORT_FREQ
    /\ pc = "test" =>
          IF (i + 1) % LOSS_REPORT_FREQ = 0
          THEN /\ LossLines # << >>
               /\ Last(LossLines).num_steps = num_steps
               /\ Last(LossLines).batch = i + 1
               /\ Len(recent) = LOSS_REPORT_FREQ
               /\ Last(LossLines).value = << Sum(recent), LOSS_REPORT_FREQ >>
               /\ running_loss = 0
          ELSE \A k \in 1..Len(LossLines) : LossLines[k].num_steps # num_steps

\* a report in a later pass, the pass before having ended on batches that no
\* report covered
C12_Witness ==
    /\ pc = "test"
    /\ (i + 1) % LOSS_REPORT_FREQ = 0
    /\ train_loader % LOSS_REPORT_FREQ # 0
    /\ num_steps > train_loader
    /\ Len(LossLines) >= 2
    /\ Sum(recent) > 0

\* each curve keeps its entries and grows by at most one, both together
CurvesOnlyGrow ==
    /\ Extends(test_acc_list', test_acc_list)
    /\ Extends(test_loss_list', test_loss_list)
    /\ Len(test_acc_list') <= Len(test_acc_list) + 1
    /\ Len(test_acc_list') = Len(test_acc_list)
          <=> Len(test_loss_list') = Len(test_loss_list)

(***************************************************************************)
(* C13.  The two curves have the same length, which is the number of       *)
(* evaluator calls that have returned (less the one whose result lines     *)
(* 130-131 are about to append), and no step removes, changes or reorders  *)
(* an entry: a step leaves both as they are or appends one entry to each.  *)
(***************************************************************************)
C13_CurvesAppendOnly ==
    /\ [](/\ Len(test_loss_list) = Len(test_acc_list)
          /\ Len(test_acc_list) =
                IF pc = "record" THEN eval_returns - 1 ELSE eval_returns)
    /\ [][CurvesOnlyGrow]_vars

\* a finished run with three evaluations
C13_Witness ==
    /\ pc = "returned"
    /\ eval_returns = 3
    /\ Len(test_acc_list) = 3
    /\ Len(test_loss_list) = 3

\* a step of the evaluator leaves the training state as it is
EvaluatorFrame ==
    pc \in {"eval_enter", "eval_loop"} =>
        UNCHANGED << params, opt_steps, sched_steps, num_steps, running_loss,
                     best_acc, best_model, captured, test_loss_list,
                     test_acc_list, out, file, plot >>

(***************************************************************************)
(* C14.  A call of get_accuracy_and_loss leaves the model parameters, the  *)
(* optimizer and scheduler, num_steps, running_loss, best_acc, best_model  *)
(* and the curve history unchanged; of the training state it writes the    *)
(* mode flag only.                                                         *)
(***************************************************************************)
C14_EvaluatorFrame == [][EvaluatorFrame]_vars

\* a second evaluation has returned while a snapshot was held
C14_Witness ==
    /\ pc = "record"
    /\ eval_returns = 2
    /\ test_iter = Len(test_loader)
    /\ test_iter >= 1
    /\ best_model # "None"
    /\ params = num_steps

(***************************************************************************)
(* C15.  For every evaluation over a loader with at least one batch the    *)
(* accuracy returned is num_correct / num_samples with                     *)
(* 0 <= num_correct <= num_samples, num_samples the number of examples of  *)
(* the loader, so it lies in [0, 1]; the mean loss returned is >= 0.       *)
(***************************************************************************)
C15_AccuracyWithinBounds ==
    /\ 0 <= num_correct /\ num_correct <= num_samples /\ loss >= 0
    /\ pc = "record" =>
          /\ num_samples = Sum(test_loader)
          /\ num_samples > 0
          /\ test_acc = << num_correct, num_samples >>
          /\ ~Greater(<< 0, 1 >>, test_acc)
          /\ ~Greater(test_acc, << 1, 1 >>)
          /\ ~Greater(<< 0, 1 >>, test_loss)
    /\ \A k \in 1..Len(test_acc_list) :
          /\ ~Greater(<< 0, 1 >>, test_acc_list[k])
          /\ ~Greater(test_acc_list[k], << 1, 1 >>)
          /\ ~Greater(<< 0, 1 >>, test_loss_list[k])

\* an evaluation over two batches returned an accuracy strictly inside (0, 1)
C15_Witness ==
    /\ pc = "record"
    /\ Len(test_loader) = 2
    /\ 0 < num_correct
    /\ num_correct < num_samples
    /\ loss > 0

\* the per-batch losses of the evaluation, each weighted by its batch's size
WeightedLosses == [k \in 1..Len(batch_losses) |-> batch_losses[k] * test_loader[k]]

(***************************************************************************)
(* C16.  For every sequence of test batches of sizes n_1..n_k, equal or    *)
(* not, with per-batch losses l_1..l_k, get_accuracy_and_loss returns the  *)
(* loss (sum of l_i * n_i) / (sum of n_i), and the accuracy has that same  *)
(* denominator.                                                            *)
(***************************************************************************)
C16_LossExampleWeighted ==
    pc = "record" =>
        /\ Len(batch_losses) = Len(test_loader)
        /\ test_loss = << Sum(WeightedLosses), Sum(test_loader) >>
        /\ test_acc[2] = Sum(test_loader)

\* two batches of different sizes with different losses
C16_Witness ==
    /\ pc = "record"
    /\ Len(test_loader) = 2
    /\ test_loader[1] # test_loader[2]
    /\ batch_losses[1] # batch_losses[2]
    /\ test_loss = << Sum(WeightedLosses), Sum(test_loader) >>

(***************************************************************************)
(* C17.  For every configuration, an empty training loader included, the   *)
(* run eventually leaves the loop: it reaches the persistence stage (or    *)
(* ends in an exception); it never goes on starting passes forever.        *)
(***************************************************************************)
C17_RunLeavesLoop == <>(Done \/ pc = "raised")

(***************************************************************************)
(* C18.  At the persistence stage of a run with total_steps >= 1           *)
(* best_model is not None, the curve history is not empty and best_acc is  *)
(* the maximum of test_acc_list, hence >= 0; the accuracy in the name of   *)
(* the checkpoint file is that of an entry of test_acc_list.               *)
(***************************************************************************)
C18_BestIsObservedAtDone ==
    (Done /\ total_steps >= 1) =>
        /\ best_model # "None"
        /\ test_acc_list # << >>
        /\ test_loss_list # << >>
        /\ \E k \in 1..Len(test_acc_list) : best_acc = test_acc_list[k]
        /\ \A k \in 1..Len(test_acc_list) : ~Greater(test_acc_list[k], best_acc)
        /\ ~Greater(<< 0, 1 >>, best_acc)
        /\ file.written =>
              /\ file.name >= 0
              /\ \E k \in 1..Len(test_acc_list) :
                    file.name = Format3(test_acc_list[k])

\* the best accuracy, the one in the file name, is that of an evaluation
\* before the last one
C18_Witness ==
    /\ pc = "returned"
    /\ Len(test_acc_list) >= 2
    /\ Greater(best_acc, Last(test_acc_list))
    /\ file.written
    /\ file.name = Format3(best_acc)
    /\ file.name > 0

\* the in-pass batch count of the step that brought the counter to n, every
\* pass before it having run all the batches of the loader
BatchInPass(n) == ((n - 1) % train_loader) + 1

(***************************************************************************)
(* C19.  Periodic evaluations and loss reports follow the in-pass batch    *)
(* count, which restarts with every pass, not the global step counter: an  *)
(* evaluation before the budget is met is made at an in-pass multiple of   *)
(* TEST_ACC_FREQ, a loss report at an in-pass multiple of                  *)
(* LOSS_REPORT_FREQ.  So a run whose pass has fewer than TEST_ACC_FREQ     *)
(* batches makes no periodic evaluation however large total_steps is: its  *)
(* only evaluation is the one at num_steps = total_steps and the curve     *)
(* history has exactly one entry at DONE.                                  *)
(***************************************************************************)
C19_CadenceFollowsPass ==
    /\ \A k \in 1..Len(EvalLines) :
          \/ EvalLines[k].num_steps = total_steps
          \/ BatchInPass(EvalLines[k].num_steps) % TEST_ACC_FREQ = 0
    /\ \A k \in 1..Len(LossLines) :
          /\ LossLines[k].batch = BatchInPass(LossLines[k].num_steps)
          /\ LossLines[k].batch % LOSS_REPORT_FREQ = 0
    /\ train_loader < TEST_ACC_FREQ =>
          /\ eval_returns <= 1
          /\ Len(test_acc_list) <= 1
          /\ \A k \in 1..Len(EvalLines) : EvalLines[k].num_steps = total_steps
          /\ Done => (eval_returns = 1 /\ Len(test_acc_list) = 1
                         /\ Len(test_loss_list) = 1)

\* a finished run of passes shorter than the cadence and of at least twice
\* the cadence in steps: one evaluation
C19_Witness ==
    /\ pc = "returned"
    /\ train_loader >= 1
    /\ train_loader < TEST_ACC_FREQ
    /\ total_steps >= 2 * TEST_ACC_FREQ
    /\ Len(test_acc_list) = 1
    /\ EvalLines[1].num_steps = total_steps

====
